---- MODULE Spec2Model ----
(***************************************************************************)
(* LMDB editor: the transaction handle kept by LmdbEditor (src/txn.rs),    *)
(* the frame handler LmdbEditor::update and the pane handler               *)
(* TreeBehavior::pane_ui (src/main.rs), over an LMDB environment that      *)
(* another process may write to.                                           *)
(*                                                                         *)
(* One frame of the GUI is: the top bar (update, lines 80-106), then the   *)
(* pane (pane_ui).  A frame carries at most one click; op holds the click  *)
(* while its frame runs.  The handlers of the top bar are cut at their     *)
(* engine calls (env.write_txn, RwTxn::commit, env.read_txn), and the pane *)
(* where its cursor is opened, because another process can commit between  *)
(* two of them and because the live handles and cursors change there.      *)
(*                                                                         *)
(* The engine (heed over LMDB) is given: a read transaction sees the       *)
(* committed contents at the time it was begun; a write transaction sees   *)
(* those contents with its own puts and deletes on top, holds the single   *)
(* writer lock until it is committed or aborted, and its writes become the *)
(* committed contents at commit.  Every engine call that returns a Result  *)
(* may fail; the code unwraps each one, which panics.                      *)
(***************************************************************************)
EXTENDS Integers, Sequences, FiniteSets, TLC

\* Number of distinct keys the stores of the model range over.
NumKeys == 2

\* The key bytes the model draws from: 'a', NUL, newline, backslash.
KeyBytes == <<97, 0, 10, 92>>

\* Keys and values are byte strings (Database<ByteSlice, ByteSlice>).  The
\* values of the model are the empty string and "1".
KeySpace == {<<KeyBytes[i]>> : i \in 1..NumKeys}

DataSpace == {<<>>, <<49>>}

\* The one table name the environments of the model may hold: "t".
TableNames == {<<116>>}

\* A table: a finite map from the keys present to their values.
EmptyStore == [k \in {} |-> <<>>]

AllStores == UNION {[D -> DataSpace] : D \in SUBSET KeySpace}

Put(s, k, v) == [x \in (DOMAIN s) \cup {k} |-> IF x = k THEN v ELSE s[x]]

Delete(s, k) == [x \in (DOMAIN s) \ {k} |-> s[x]]

----------------------------------------------------------------------------
\* STFU-8 text, as a sequence of ASCII code points.

HexDigit(n) == IF n < 10 THEN 48 + n ELSE 55 + n

HexVal(c) ==
    IF c \in 48..57 THEN c - 48
    ELSE IF c \in 65..70 THEN c - 55
    ELSE IF c \in 97..102 THEN c - 87
    ELSE -1

\* Mutant of EncodeBytePretty: a backslash is written as it is.
EncodeBytePretty_Single(b) ==
    IF b \in {9, 10, 13, 92} THEN <<b>>
    ELSE IF b >= 32 /\ b <= 126 THEN <<b>>
    ELSE <<92, 120, HexDigit(b \div 16), HexDigit(b % 16)>>

\* stfu8::encode_u8_pretty on one byte: a backslash is doubled, tab, newline
\* and carriage return stay literal, printable ASCII stays literal, any other
\* byte becomes \xHH.
EncodeBytePretty(b) ==
    IF b = 92 THEN <<92, 92>>
    ELSE IF b \in {9, 10, 13} THEN <<b>>
    ELSE IF b >= 32 /\ b <= 126 THEN <<b>>
    ELSE <<92, 120, HexDigit(b \div 16), HexDigit(b % 16)>>

RECURSIVE EncodePretty(_)
EncodePretty(bs) ==
    IF bs = <<>> THEN <<>>
    ELSE EncodeBytePretty(Head(bs)) \o EncodePretty(Tail(bs))

\* stfu8::decode_u8 from position i: the bytes, or a DecodeError.  The texts
\* of the model hold no \u escape.
RECURSIVE DecodeFrom(_, _)
DecodeFrom(t, i) ==
    IF i > Len(t) THEN [ok |-> TRUE, bytes |-> <<>>]
    ELSE IF t[i] # 92
    THEN LET rest == DecodeFrom(t, i + 1)
         IN  [ok |-> rest.ok, bytes |-> <<t[i]>> \o rest.bytes]
    ELSE IF i + 1 > Len(t) THEN [ok |-> FALSE, bytes |-> <<>>]
    ELSE IF t[i + 1] \in {92, 110, 116, 114}
    THEN LET rest == DecodeFrom(t, i + 2)
             b == CASE t[i + 1] = 92 -> 92
                    [] t[i + 1] = 110 -> 10
                    [] t[i + 1] = 116 -> 9
                    [] t[i + 1] = 114 -> 13
         IN  [ok |-> rest.ok, bytes |-> <<b>> \o rest.bytes]
    ELSE IF t[i + 1] = 120
    THEN IF i + 3 > Len(t) \/ HexVal(t[i + 2]) < 0 \/ HexVal(t[i + 3]) < 0
         THEN [ok |-> FALSE, bytes |-> <<>>]
         ELSE LET rest == DecodeFrom(t, i + 4)
              IN  [ok |-> rest.ok,
                   bytes |-> <<16 * HexVal(t[i + 2]) + HexVal(t[i + 3])>> \o rest.bytes]
    ELSE [ok |-> FALSE, bytes |-> <<>>]

\* EscapedEntry::decoded_key and decoded_data.
decoded_key(e) == DecodeFrom(e.key, 1)

decoded_data(e) == DecodeFrom(e.data, 1)

\* EscapedEntry::default and the entry after EscapedEntry::clear.
ClearedEntry == [key |-> <<>>, data |-> <<>>]

\* A truncated \x escape: text that does not decode.
Malformed == <<92, 120, 48>>

\* The texts of the two fields.
KeyTexts == {EncodePretty(k) : k \in KeySpace} \cup {<<>>, Malformed}

DataTexts == {EncodePretty(d) : d \in DataSpace} \cup {Malformed}

\* What the user types into the two fields: a key and a value, or text that
\* does not decode in one of the two, or a value with no key.
TypedEntries ==
    {[key |-> EncodePretty(k), data |-> EncodePretty(d)] :
        k \in KeySpace, d \in DataSpace}
    \cup {[key |-> Malformed, data |-> <<49>>],
          [key |-> <<97>>, data |-> Malformed],
          [key |-> <<>>, data |-> <<49>>]}

----------------------------------------------------------------------------
\* The rows of a table in the order a cursor yields them.

\* LMDB's default key order: bytewise, a proper prefix first.
RECURSIVE KeyLess(_, _)
KeyLess(a, b) ==
    IF a = <<>> THEN b # <<>>
    ELSE IF b = <<>> THEN FALSE
    ELSE IF Head(a) # Head(b) THEN Head(a) < Head(b)
    ELSE KeyLess(Tail(a), Tail(b))

\* database.iter(txn): the (key, data) pairs of the view, ascending by key.
RECURSIVE Iter(_)
Iter(view) ==
    IF DOMAIN view = {} THEN <<>>
    ELSE LET k == CHOOSE x \in DOMAIN view :
                     \A y \in (DOMAIN view) \ {x} : KeyLess(x, y)
         IN  <<[key |-> k, data |-> view[k]]>> \o Iter(Delete(view, k))

\* The body of the table for the visible rows start .. start+len-1, visited
\* in increasing order: the first row skips row_index entries of the cursor
\* (iter.by_ref().take(row_index)), every row then takes the next entry, if
\* there is one, and shows its key and data pretty-encoded.
Window(view, start, len) ==
    LET all == Iter(view)
        got == {j \in 1..len : start + j <= Len(all)}
    IN  [j \in 1..Cardinality(got) |->
            [key |-> EncodePretty(all[start + j].key),
             data |-> EncodePretty(all[start + j].data)]]

\* The table as pane_ui shows it: num_rows = database.len(txn) rows, from
\* row 0 on (lines 239-267).
RowsOf(view) == Window(view, 0, Cardinality(DOMAIN view))

----------------------------------------------------------------------------
\* The state.

VARIABLES
    txn,             \* LmdbEditor.txn: which variant of Txn it holds
    pc,              \* where the program is
    op,              \* the click the running frame carries, until its rows
                     \* are rendered
    fault,           \* the call whose failure made the program panic
    committed,       \* the committed contents of the main table
    liveRo,          \* number of live read transaction handles of this process
    liveRw,          \* number of live write transaction handles of this process
    rsnap,           \* what the live read handle sees
    wbase,           \* what the live write handle saw when it was begun
    wputs,           \* the puts of the live write handle, by key
    wdels,           \* the keys the live write handle deleted
    entry_to_insert, \* the two text fields of the pane
    shown,           \* the rows of the table on the screen
    wrote,           \* history: what this process committed last (view),
                     \* whether no other process has committed since (clean),
                     \* and whether the write transaction it ended last had
                     \* changed what it started from (changed)
    ignored,         \* the handler of the frame's click took its branch that
                     \* does nothing
    iter,            \* the cursor of pane_ui: whether it is open, the view it
                     \* was opened on, how many entries it has yielded (pos),
                     \* prev_row_index (-1 for None), the first row index it
                     \* was asked for (-1 before the first row) and, as
                     \* history, the row index after the last row the cursor
                     \* before it was asked for (resume, -1 if none)
    tables,          \* the named tables of the environment
    open_pane        \* the "Open new" pane: its text field, and the table
                     \* pane that replaced it, if any

vars == <<txn, pc, op, fault, committed, liveRo, liveRw, rsnap, wbase, wputs,
          wdels, entry_to_insert, shown, wrote, ignored, iter, tables,
          open_pane>>

\* What the top bar and the entry window leave alone.
aside == <<iter, tables, open_pane>>

engine == <<committed, liveRo, liveRw, rsnap, wbase, wputs, wdels, wrote>>

wstate == <<wbase, wputs, wdels>>

TopOps == {"start_writing", "commit", "abort", "refresh"}

\* What the write handle sees: its base with its own puts and deletes on top.
WView ==
    [k \in ((DOMAIN wbase) \ wdels) \cup (DOMAIN wputs) |->
        IF k \in DOMAIN wputs THEN wputs[k] ELSE wbase[k]]

\* No cursor: pane_ui is not running, or has not reached line 241.
NoCursor == [open |-> FALSE, view |-> EmptyStore, pos |-> 0, prev |-> -1,
             first |-> -1, resume |-> -1]

\* Pane::OpenNew { database_to_open: String::new() } (line 67); opened holds
\* the database_name of the Pane::DatabaseEntries that replaced it.
NewOpenPane == [database_to_open |-> <<>>, opened |-> <<>>, replaced |-> FALSE]

TypeOK ==
    /\ txn \in {"NoApp", "Ro", "Rw", "None"}
    /\ pc \in {"new56", "new57", "new58", "new72", "update", "bw89", "bw90",
               "er49", "er52", "rf35", "pane", "rows", "panicked"}
    /\ op \in {"new", "none", "insert", "delete"} \cup TopOps
    /\ fault \in {"none", "write_txn", "create_database", "commit", "read_txn",
                  "decode", "put", "delete", "len", "cursor", "unreachable"}
    /\ committed \in AllStores
    /\ liveRo \in 0..2
    /\ liveRw \in 0..2
    /\ rsnap \in AllStores
    /\ wbase \in AllStores
    /\ wputs \in AllStores
    /\ wdels \subseteq KeySpace
    /\ entry_to_insert \in [key : KeyTexts, data : DataTexts]
    /\ shown \in Seq([key : KeyTexts, data : DataTexts])
    /\ wrote \in [clean : BOOLEAN, changed : BOOLEAN, view : AllStores]
    /\ ignored \in BOOLEAN
    /\ iter.open \in BOOLEAN /\ iter.view \in AllStores
    /\ tables \subseteq TableNames

\* The main table of the environment the user picked may hold anything; it
\* has no named table.  LmdbEditor::new has not run yet.
Init ==
    /\ txn = "NoApp"
    /\ pc = "new56"
    /\ op = "new"
    /\ fault = "none"
    /\ committed \in AllStores
    /\ liveRo = 0
    /\ liveRw = 0
    /\ rsnap = EmptyStore
    /\ wbase = EmptyStore
    /\ wputs = EmptyStore
    /\ wdels = {}
    /\ entry_to_insert = ClearedEntry
    /\ shown = <<>>
    /\ wrote = [clean |-> FALSE, changed |-> FALSE, view |-> EmptyStore]
    /\ ignored = FALSE
    /\ iter = NoCursor
    /\ tables = {}
    /\ open_pane = NewOpenPane

\* unwrap() of an Err, or unreachable!(): the panic ends the process, and
\* with it the editor, its handles and its text fields.  The committed
\* contents stay.
Crash(call) ==
    /\ pc' = "panicked"
    /\ fault' = call
    /\ txn' = "NoApp"
    /\ liveRo' = 0
    /\ liveRw' = 0
    /\ rsnap' = EmptyStore
    /\ wbase' = EmptyStore
    /\ wputs' = EmptyStore
    /\ wdels' = {}
    /\ entry_to_insert' = ClearedEntry
    /\ shown' = <<>>
    /\ ignored' = FALSE
    /\ iter' = NoCursor
    /\ open_pane' = NewOpenPane
    /\ UNCHANGED <<committed, wrote, tables>>

\* A panic in a step that is not itself a click.
Panic(call) ==
    /\ Crash(call)
    /\ UNCHANGED op

\* env.write_txn(): a new write handle that sees the committed contents.
OpenWrite ==
    /\ liveRw' = liveRw + 1
    /\ wbase' = committed
    /\ wputs' = EmptyStore
    /\ wdels' = {}

\* The write handle is gone (committed, aborted or dropped).
CloseWrite ==
    /\ liveRw' = liveRw - 1
    /\ wbase' = EmptyStore
    /\ wputs' = EmptyStore
    /\ wdels' = {}

\* env.read_txn(): a new read handle that sees the committed contents.
OpenRead ==
    /\ liveRo' = liveRo + 1
    /\ rsnap' = committed

\* The read handle is dropped.
CloseRead ==
    /\ liveRo' = liveRo - 1
    /\ rsnap' = EmptyStore

\* The history of a successful commit of the live write handle.
Committing == [clean |-> TRUE, changed |-> WView # wbase, view |-> WView]

\* The history of an abort of the live write handle: nothing is committed.
Aborting == [wrote EXCEPT !.changed = WView # wbase]

----------------------------------------------------------------------------
\* LmdbEditor::new (main.rs 55-73).

\* let mut wtxn = env.write_txn().unwrap();
NewWriteTxn ==
    /\ pc = "new56"
    /\ \E ok \in BOOLEAN :
        IF ok
        THEN /\ OpenWrite
             /\ pc' = "new57"
             /\ UNCHANGED <<txn, op, fault, committed, wrote, liveRo, rsnap,
                            entry_to_insert, shown, ignored, aside>>
        ELSE Panic("write_txn")

\* let main_db = env.create_database(&mut wtxn, None).unwrap();
\* the unnamed table always exists, so the contents do not change.
NewCreateDatabase ==
    /\ pc = "new57"
    /\ \E ok \in BOOLEAN :
        IF ok
        THEN /\ pc' = "new58"
             /\ UNCHANGED <<txn, op, fault, engine, entry_to_insert, shown,
                            ignored, aside>>
        ELSE Panic("create_database")

\* wtxn.commit().unwrap();
NewCommit ==
    /\ pc = "new58"
    /\ \E ok \in BOOLEAN :
        IF ok
        THEN /\ committed' = WView
             /\ wrote' = Committing
             /\ CloseWrite
             /\ pc' = "new72"
             /\ UNCHANGED <<txn, op, fault, liveRo, rsnap, entry_to_insert,
                            shown, ignored, aside>>
        ELSE Panic("commit")

\* let rtxn = env.read_txn().unwrap(); LmdbEditor { txn: Txn::Ro(rtxn), .. }
NewReadTxn ==
    /\ pc = "new72"
    /\ \E ok \in BOOLEAN :
        IF ok
        THEN /\ OpenRead
             /\ txn' = "Ro"
             /\ pc' = "update"
             /\ op' = "none"
             /\ UNCHANGED <<fault, committed, wrote, liveRw, wstate,
                            entry_to_insert, shown, ignored, aside>>
        ELSE Panic("read_txn")

----------------------------------------------------------------------------
\* LmdbEditor::update, the top bar (main.rs 80-106).

\* egui paints every frame anew: nothing of the last frame's table is on
\* the screen until the pane has painted this frame's rows.
NewFrame == shown' = <<>>

\* Mutant of ClickStartWriting: the click starts a write transaction whatever
\* self.txn holds.
ClickStartWriting_Unguarded ==
    /\ pc = "update"
    /\ op' = "start_writing"
    /\ pc' = "bw89"
    /\ ignored' = FALSE
    /\ NewFrame
    /\ UNCHANGED <<txn, fault, engine, entry_to_insert, aside>>

\* The first button is clicked.  It starts a write transaction only when
\* self.txn is Txn::Ro (line 88).
ClickStartWriting ==
    /\ pc = "update"
    /\ op' = "start_writing"
    /\ pc' = IF txn = "Ro" THEN "bw89" ELSE "pane"
    /\ ignored' = (txn # "Ro")
    /\ NewFrame
    /\ UNCHANGED <<txn, fault, engine, entry_to_insert, aside>>

\* let wtxn = env.write_txn().unwrap();          (line 89)
BeginWriteTxn ==
    /\ pc = "bw89"
    /\ \E ok \in BOOLEAN :
        IF ok
        THEN /\ OpenWrite
             /\ pc' = "bw90"
             /\ UNCHANGED <<txn, op, fault, committed, wrote, liveRo, rsnap,
                            entry_to_insert, shown, ignored, aside>>
        ELSE Panic("write_txn")

\* self.txn = txn::Txn::Rw(wtxn);                 (line 90)
\* the assignment drops the old value, Txn::Ro(rtxn).
BeginAssign ==
    /\ pc = "bw90"
    /\ IF txn = "Ro" THEN CloseRead ELSE UNCHANGED <<liveRo, rsnap>>
    /\ txn' = "Rw"
    /\ pc' = "pane"
    /\ UNCHANGED <<op, fault, committed, wrote, liveRw, wstate, entry_to_insert,
                   shown, ignored, aside>>

\* Variant of EndRwTake: the handle is taken out whatever self holds, Ro
\* included.
EndRwTake_AnyState ==
    IF txn \in {"Ro", "Rw"}
    THEN /\ txn' = "None"
         /\ pc' = "er49"
         /\ ignored' = FALSE
         /\ UNCHANGED <<fault, engine, entry_to_insert, aside>>
    ELSE Crash("unreachable")

\* Txn::end_rw, first half (txn.rs 40-50): Ro is a no-op, None is
\* unreachable!(), Rw takes the handle out with
\* mem::replace(self, Self::None).
EndRwTake ==
    CASE txn = "Rw" ->
           /\ txn' = "None"
           /\ pc' = "er49"
           /\ ignored' = FALSE
           /\ UNCHANGED <<fault, engine, entry_to_insert, aside>>
      [] txn = "Ro" ->
           /\ pc' = "pane"
           /\ ignored' = TRUE
           /\ UNCHANGED <<txn, fault, engine, entry_to_insert, aside>>
      [] OTHER -> Crash("unreachable")

\* "commit changes" is shown and clicked: self.txn.commit(env)   (93-96)
ClickCommit ==
    /\ pc = "update"
    /\ txn = "Rw"
    /\ op' = "commit"
    /\ NewFrame
    /\ EndRwTake

\* "abort changes" is shown and clicked: self.txn.abort(env)     (93, 98-100)
ClickAbort ==
    /\ pc = "update"
    /\ txn = "Rw"
    /\ op' = "abort"
    /\ NewFrame
    /\ EndRwTake

\* Mutant of RefreshDrop: refresh keeps the handle it has.
RefreshDrop_Keep ==
    /\ pc' = "pane"
    /\ ignored' = TRUE
    /\ UNCHANGED <<txn, fault, engine, entry_to_insert, aside>>

\* Txn::refresh, first half (txn.rs 30-34): under Ro replace self by None
\* and drop the handle; under Rw do nothing.
RefreshDrop ==
    IF txn = "Ro"
    THEN /\ txn' = "None"
         /\ CloseRead
         /\ pc' = "rf35"
         /\ ignored' = FALSE
         /\ UNCHANGED <<fault, committed, wrote, liveRw, wstate, entry_to_insert,
                        aside>>
    ELSE /\ pc' = "pane"
         /\ ignored' = TRUE
         /\ UNCHANGED <<txn, fault, engine, entry_to_insert, aside>>

\* "refresh" is shown and clicked: self.txn.refresh(env)         (101-104)
ClickRefresh ==
    /\ pc = "update"
    /\ txn # "Rw"
    /\ op' = "refresh"
    /\ NewFrame
    /\ RefreshDrop

----------------------------------------------------------------------------
\* Txn::end_rw, second half (txn.rs 51-57).  op tells which closure f is.

\* Mutant of EndRwCall: the read transaction is opened first and f is called
\* after it.
EndRwCall_ReadFirst ==
    /\ pc = "er49"
    /\ OpenRead
    /\ CloseWrite
    /\ IF op = "commit"
       THEN /\ committed' = WView
            /\ wrote' = Committing
       ELSE /\ wrote' = Aborting
            /\ UNCHANGED committed
    /\ txn' = "Ro"
    /\ pc' = "pane"
    /\ UNCHANGED <<op, fault, entry_to_insert, shown, ignored, aside>>

\* Mutant of EndRwCall: abort commits the write transaction.
EndRwCall_AbortCommits ==
    /\ pc = "er49"
    /\ committed' = WView
    /\ wrote' = IF op = "commit" THEN Committing ELSE Aborting
    /\ CloseWrite
    /\ pc' = "er52"
    /\ UNCHANGED <<txn, op, fault, liveRo, rsnap, entry_to_insert, shown,
                   ignored, aside>>

\* f(wtxn): wtxn.commit().unwrap(), or wtxn.abort().
EndRwCall ==
    /\ pc = "er49"
    /\ IF op = "commit"
       THEN \E ok \in BOOLEAN :
               IF ok
               THEN /\ committed' = WView
                    /\ wrote' = Committing
                    /\ CloseWrite
                    /\ pc' = "er52"
                    /\ UNCHANGED <<txn, op, fault, liveRo, rsnap,
                                   entry_to_insert, shown, ignored, aside>>
               ELSE Panic("commit")
       ELSE /\ wrote' = Aborting
            /\ CloseWrite
            /\ pc' = "er52"
            /\ UNCHANGED <<txn, op, fault, committed, liveRo, rsnap,
                           entry_to_insert, shown, ignored, aside>>

\* Mutant of EndRwStore: the new read handle is opened and dropped, self
\* stays None.
EndRwStore_NotStored ==
    /\ pc = "er52"
    /\ pc' = "pane"
    /\ UNCHANGED <<txn, op, fault, engine, entry_to_insert, shown, ignored,
                   aside>>

\* let rtxn = env.read_txn().unwrap();            (line 52)
\* match mem::replace(self, Self::Ro(rtxn)): the old value must be None.
EndRwStore ==
    /\ pc = "er52"
    /\ \E ok \in BOOLEAN :
        IF ok /\ txn = "None"
        THEN /\ OpenRead
             /\ txn' = "Ro"
             /\ pc' = "pane"
             /\ UNCHANGED <<op, fault, committed, wrote, liveRw, wstate,
                            entry_to_insert, shown, ignored, aside>>
        ELSE Panic(IF ok THEN "unreachable" ELSE "read_txn")

----------------------------------------------------------------------------
\* Txn::refresh, second half (txn.rs 35).

\* *self = Self::Ro(env.read_txn().unwrap());
RefreshReadTxn ==
    /\ pc = "rf35"
    /\ \E ok \in BOOLEAN :
        IF ok
        THEN /\ OpenRead
             /\ txn' = "Ro"
             /\ pc' = "pane"
             /\ UNCHANGED <<op, fault, committed, wrote, liveRw, wstate,
                            entry_to_insert, shown, ignored, aside>>
        ELSE Panic("read_txn")

----------------------------------------------------------------------------
\* TreeBehavior::pane_ui for the pane of the main table (main.rs 182-292):
\* the entry window, then the table of rows.  The frame ends with it, and
\* the frame's click is spent.

\* Mutant of CurrentView: under Txn::Ro the rows are read from the latest
\* committed contents, as a handle opened for the frame would.
CurrentView_Latest == IF txn = "Ro" THEN committed ELSE WView

\* Mutant of CurrentView: under Txn::Rw the rows are read without the
\* transaction's own writes.
CurrentView_Base == IF txn = "Ro" THEN rsnap ELSE wbase

\* The transaction the rows are read under (lines 229-237): the read handle,
\* or the write handle dereferenced.  The "Open new" pane picks its
\* transaction by the same match (lines 296-304).
CurrentView == IF txn = "Ro" THEN rsnap ELSE WView

\* Lines 239-241, once the entry window has set the next state of the
\* transaction: database.len and database.iter open the cursor on the view of
\* the transaction just picked, with prev_row_index = None.  No row of this
\* frame is painted yet.
OpenCursor ==
    /\ iter' = [iter EXCEPT !.open = TRUE, !.view = CurrentView', !.pos = 0,
                            !.prev = -1, !.first = -1]
    /\ shown' = <<>>
    /\ pc' = "rows"
    /\ UNCHANGED <<fault, tables, open_pane>>

\* The pane up to line 241 with what its entry window does: Txn::None is
\* unreachable!() (line 236), and a failing database.len or database.iter
\* is unwrapped.
Pane(window) ==
    /\ IF txn \notin {"Ro", "Rw"}
       THEN Panic("unreachable")
       ELSE \E ok \in BOOLEAN :
               IF ok THEN window /\ OpenCursor ELSE Panic("len")

\* No click in the entry window: the frame of a click in the top bar, or a
\* frame without any click so far.
PaneIdle ==
    /\ pc \in {"update", "pane"}
    /\ Pane(UNCHANGED <<txn, op, engine, entry_to_insert, ignored>>)

\* The user edits the two text fields (lines 206-208).
PaneType ==
    /\ pc = "update"
    /\ Pane(/\ entry_to_insert' \in TypedEntries
            /\ UNCHANGED <<txn, op, engine, ignored>>)

\* Mutant of PaneInsert: without a write transaction the entry is put by a
\* write transaction of its own, committed at once.
PaneInsert_Unguarded ==
    /\ pc = "update"
    /\ LET key == decoded_key(entry_to_insert)
           data == decoded_data(entry_to_insert)
       IN  /\ key.ok /\ data.ok /\ key.bytes # <<>>
           /\ Pane(/\ IF txn = "Rw"
                       THEN /\ wputs' = Put(wputs, key.bytes, data.bytes)
                            /\ wdels' = wdels \ {key.bytes}
                            /\ UNCHANGED committed
                       ELSE /\ committed' = Put(committed, key.bytes, data.bytes)
                            /\ UNCHANGED <<wputs, wdels>>
                    /\ entry_to_insert' = ClearedEntry
                    /\ op' = "insert"
                    /\ ignored' = FALSE
                    /\ UNCHANGED <<txn, wrote, liveRo, liveRw, rsnap, wbase>>)

\* "insert" (lines 210-217): under Txn::Rw, decode both fields, put, clear.
\* The engine refuses an empty key.
PaneInsert ==
    /\ pc = "update"
    /\ IF txn = "Rw"
       THEN LET key == decoded_key(entry_to_insert)
                data == decoded_data(entry_to_insert)
            IN  IF ~key.ok \/ ~data.ok
                THEN Panic("decode")
                ELSE \E ok \in BOOLEAN :
                        IF ok /\ key.bytes # <<>>
                        THEN Pane(/\ wputs' = Put(wputs, key.bytes, data.bytes)
                                  /\ wdels' = wdels \ {key.bytes}
                                  /\ entry_to_insert' = ClearedEntry
                                  /\ op' = "insert"
                                  /\ ignored' = FALSE
                                  /\ UNCHANGED <<txn, committed, wrote, liveRo,
                                                 liveRw, rsnap, wbase>>)
                        ELSE Panic("put")
       ELSE Pane(/\ op' = "insert"
                 /\ ignored' = TRUE
                 /\ UNCHANGED <<txn, engine, entry_to_insert>>)

\* "delete" (lines 219-225): under Txn::Rw, decode the key, delete, clear.
PaneDelete ==
    /\ pc = "update"
    /\ IF txn = "Rw"
       THEN LET key == decoded_key(entry_to_insert)
            IN  IF ~key.ok
                THEN Panic("decode")
                ELSE \E ok \in BOOLEAN :
                        IF ok /\ key.bytes # <<>>
                        THEN Pane(/\ wputs' = Delete(wputs, key.bytes)
                                  /\ wdels' = IF key.bytes \in DOMAIN wbase
                                              THEN wdels \cup {key.bytes}
                                              ELSE wdels
                                  /\ entry_to_insert' = ClearedEntry
                                  /\ op' = "delete"
                                  /\ ignored' = FALSE
                                  /\ UNCHANGED <<txn, committed, wrote, liveRo,
                                                 liveRw, rsnap, wbase>>)
                        ELSE Panic("delete")
       ELSE Pane(/\ op' = "delete"
                 /\ ignored' = TRUE
                 /\ UNCHANGED <<txn, engine, entry_to_insert>>)

\* Variant of RenderRows: the cursor outlives the frame that opened it.
RenderRows_KeepCursor ==
    /\ pc = "rows"
    /\ shown' = RowsOf(iter.view)
    /\ iter' = iter
    /\ pc' = "update"
    /\ op' = "none"
    /\ ignored' = FALSE
    /\ UNCHANGED <<txn, fault, engine, tables, open_pane>>

\* Lines 243-291 for a table that is wholly visible: the body renders the
\* rows 0 .. num_rows-1 from the cursor, which is dropped when pane_ui
\* returns.  The frame ends, and its click is spent.  A cursor step that
\* fails is unwrapped (line 267).
RenderRows ==
    /\ pc = "rows"
    /\ shown' = RowsOf(iter.view)
    /\ iter' = NoCursor
    /\ pc' = "update"
    /\ op' = "none"
    /\ ignored' = FALSE
    /\ UNCHANGED <<txn, fault, engine, tables, open_pane>>

\* The rows are rendered and no "edit" is clicked.
ShowRows ==
    \E ok \in BOOLEAN :
        IF ok
        THEN RenderRows /\ UNCHANGED entry_to_insert
        ELSE pc = "rows" /\ Panic("cursor")

\* "edit" on a rendered row copies its two texts into the entry (lines
\* 279-282).
PaneEdit ==
    /\ op = "none"
    /\ RenderRows
    /\ \E i \in DOMAIN RowsOf(iter.view) :
          entry_to_insert' = RowsOf(iter.view)[i]

----------------------------------------------------------------------------
\* Another process commits a write transaction of its own.  It needs the
\* writer lock, which this process holds while it has a write handle.
ExternalCommit ==
    /\ pc # "panicked"
    /\ liveRw = 0
    /\ \E k \in KeySpace :
          \/ \E v \in DataSpace : committed' = Put(committed, k, v)
          \/ committed' = Delete(committed, k)
    /\ wrote' = [clean |-> FALSE, changed |-> FALSE, view |-> EmptyStore]
    /\ UNCHANGED <<txn, pc, op, fault, liveRo, liveRw, rsnap, wstate,
                   entry_to_insert, shown, ignored, aside>>

Next ==
    \/ NewWriteTxn
    \/ NewCreateDatabase
    \/ NewCommit
    \/ NewReadTxn
    \/ ClickStartWriting
    \/ BeginWriteTxn
    \/ BeginAssign
    \/ ClickCommit
    \/ ClickAbort
    \/ ClickRefresh
    \/ EndRwCall
    \/ EndRwStore
    \/ RefreshReadTxn
    \/ PaneIdle
    \/ PaneType
    \/ PaneInsert
    \/ PaneDelete
    \/ ShowRows
    \/ PaneEdit
    \/ ExternalCommit

Spec == Init /\ [][Next]_vars

----------------------------------------------------------------------------
\* Properties.

\* C1: at every instant at most one transaction handle of this process is
\* live, the startup sequence and the "start writing" transition included.
C1_AtMostOneHandle == liveRo + liveRw <= 1

\* C2: wherever a caller can look at self.txn (at the start of a frame and
\* in the pane) it is Ro or Rw with exactly that one handle live; None is held only inside end_rw and refresh, and no
\* unreachable!() on None is ever hit.
C2_NoneOnlyInsideTransition ==
    /\ pc \in {"update", "pane"} =>
          \/ txn = "Ro" /\ liveRo = 1 /\ liveRw = 0
          \/ txn = "Rw" /\ liveRw = 1 /\ liveRo = 0
    /\ txn = "None" => pc \in {"er49", "er52", "rf35"}
    /\ fault # "unreachable"

\* C2 witness: a commit has completed and the pane is about to read
\* self.txn.
C2_AfterCommit ==
    /\ pc = "pane"
    /\ op = "commit"
    /\ txn = "Ro"
    /\ liveRo = 1

\* C3: a write transaction is requested only for a "start writing" click
\* under Ro; when the engine grants it the state becomes Rw with that one
\* handle; a "start writing" click under Rw requests nothing and leaves the
\* state and the pending writes as they are.
C3_BeginWriteOnlyFromReadOnly ==
    [][ /\ (pc # "bw89" /\ pc' = "bw89") => (txn = "Ro" /\ op' = "start_writing")
        /\ (pc = "update" /\ pc' # "update" /\ op' = "start_writing" /\ txn = "Ro")
              => pc' = "bw89"
        /\ (liveRw' > liveRw /\ txn # "NoApp") => (pc = "bw89" /\ txn = "Ro")
        /\ (pc = "bw89" /\ pc' \notin {"bw89", "panicked"})
              => (pc' = "bw90" /\ liveRw' = liveRw + 1)
        /\ (pc = "bw90" /\ pc' # "bw90")
              => (txn' = "Rw" /\ liveRw' = 1 /\ liveRo' = 0 /\ pc' = "pane")
        /\ (pc = "update" /\ txn = "Rw" /\ op' = "start_writing")
              => (pc' = "pane" /\ UNCHANGED <<txn, engine>>)
      ]_vars

\* C3 witness: "start writing" was clicked under Rw while writes were
\* pending.
C3_ClickedWhileWriting ==
    /\ pc = "pane"
    /\ op = "start_writing"
    /\ txn = "Rw"
    /\ wputs # EmptyStore

\* C4: f runs while no read handle is open; once commit has returned the
\* state is Ro; and as long as no other process has committed since, every
\* read handle sees exactly what the last committed write transaction saw,
\* its puts and deletes included.
C4_CommitVisibleAfterwards ==
    /\ pc = "er49" => liveRo = 0
    /\ (op = "commit" /\ pc = "pane") => txn = "Ro"
    /\ (txn = "Ro" /\ liveRo = 1 /\ wrote.clean) => rsnap = wrote.view

\* C4 witness: commit has returned for a write transaction that changed the
\* table, and the new read handle sees the changed table.
C4_CommittedChange ==
    /\ pc = "pane"
    /\ op = "commit"
    /\ txn = "Ro"
    /\ wrote.clean
    /\ wrote.changed
    /\ rsnap = wrote.view

\* C5: once abort has returned the state is Ro with no write handle; as long
\* as no other process has committed, the committed contents are what was
\* committed last, so an aborted transaction left nothing in them; and the
\* read handle opened by abort sees those contents.
C5_AbortDiscards ==
    /\ (op = "abort" /\ pc = "pane") => (txn = "Ro" /\ liveRw = 0)
    /\ wrote.clean => committed = wrote.view
    /\ (op = "abort" /\ txn = "Ro" /\ wrote.clean) => rsnap = committed

\* C5 witness: abort has returned for a write transaction that had changes
\* pending, and the new read handle sees what was committed before it.
C5_AbortedChange ==
    /\ pc = "pane"
    /\ op = "abort"
    /\ txn = "Ro"
    /\ wrote.clean
    /\ wrote.changed
    /\ rsnap = wrote.view
    /\ committed = wrote.view

\* C6: refresh under Ro drops the handle and opens a new one; the new handle
\* sees the committed contents of the moment it is opened, the state is Ro
\* again, and the rows of that frame are read from it.
C6_RefreshTakesNewSnapshot ==
    [][ /\ (pc = "update" /\ op' = "refresh" /\ txn = "Ro")
              => (txn' = "None" /\ liveRo' = 0 /\ pc' = "rf35")
        /\ (pc = "rf35" /\ pc' \notin {"rf35", "panicked"})
              => (txn' = "Ro" /\ liveRo' = 1 /\ rsnap' = committed /\ pc' = "pane")
        /\ (op = "refresh" /\ pc = "rows" /\ pc' = "update")
              => (txn = "Ro" /\ shown' = RowsOf(rsnap))
      ]_vars

\* C6 witness: refresh has returned under Ro after another process
\* committed, and the new handle sees the committed contents.
C6_RefreshedChange ==
    /\ pc = "pane"
    /\ op = "refresh"
    /\ txn = "Ro"
    /\ liveRo = 1
    /\ ~wrote.clean
    /\ rsnap = committed
    /\ rsnap # EmptyStore

\* C7: when the engine refuses the write transaction of "start writing", the
\* program goes on: the state is still Ro with its read handle.
C7_BeginWriteFailureKeepsRunning ==
    (op = "start_writing" /\ fault = "write_txn")
        => (pc # "panicked" /\ txn = "Ro" /\ liveRo = 1)

\* C8: when an engine call of commit, abort or refresh fails, the program
\* goes on with the state Ro or Rw and one live handle.
C8_EndFailureKeepsDefinedState ==
    (op \in {"commit", "abort", "refresh"} /\ fault \in {"commit", "read_txn"})
        => (pc # "panicked" /\ txn \in {"Ro", "Rw"} /\ liveRo + liveRw = 1)

\* C9: a read handle sees the committed contents of the moment it was
\* opened; while the state stays Ro what it sees does not change, whatever
\* another process commits; and the rows rendered under Ro are read from it.
C9_ReadOnlyViewIsFixed ==
    [][ /\ liveRo' > liveRo => rsnap' = committed
        /\ (txn = "Ro" /\ txn' = "Ro") => rsnap' = rsnap
        /\ (txn = "Ro" /\ pc = "rows" /\ pc' = "update")
              => shown' = RowsOf(rsnap)
      ]_vars

\* C9 witness: rows were rendered under a read handle whose view is no longer
\* the committed contents.
C9_StaleRows ==
    /\ pc = "update"
    /\ txn = "Ro"
    /\ ~wrote.clean
    /\ rsnap # committed
    /\ shown # <<>>
    /\ shown = RowsOf(rsnap)

\* C10: the rows rendered under Rw are the write handle's view, the contents
\* at begin_write with its own puts and deletes on top; and as long as the
\* write handle lives the committed contents, which is all another
\* transaction can see, are still the contents at begin_write.
C10_WriterSeesOwnWrites ==
    /\ (txn = "Rw" /\ pc = "update") => shown = RowsOf(WView)
    /\ liveRw = 1 => committed = wbase

\* C10 witness: rows were rendered under a write handle with a put and a
\* delete pending.
C10_PendingRows ==
    /\ pc = "update"
    /\ txn = "Rw"
    /\ wputs # EmptyStore
    /\ wdels # {}
    /\ shown = RowsOf(WView)
    /\ RowsOf(WView) # RowsOf(committed)

\* C11: an "insert" or "delete" click under Ro is ignored: it leaves the state,
\* the handles, the committed contents, the pending writes and the entry as
\* they are; and the committed contents change only when a write transaction
\* commits, to what that transaction sees: the one of this process (at
\* startup, or on "commit changes"), or one of another process while this
\* process holds no write handle.
C11_ReadOnlyNeverMutates ==
    [][ /\ (txn = "Ro" /\ pc = "update" /\ op' \in {"insert", "delete"})
              => (ignored' /\ UNCHANGED <<txn, engine, entry_to_insert>>)
        /\ (committed' # committed)
              => \/ /\ liveRw = 1
                    /\ pc = "new58" \/ (pc = "er49" /\ op = "commit")
                    /\ committed' = WView
                 \/ /\ liveRw = 0
                    /\ UNCHANGED <<txn, pc, op, liveRo, rsnap, wstate>>
      ]_vars

\* C11 witness: "insert" was clicked under Ro with an entry that decodes to a
\* key and a value; the click was ignored and the entry is still there.
C11_InsertIgnored ==
    /\ pc = "rows"
    /\ op = "insert"
    /\ txn = "Ro"
    /\ ignored
    /\ decoded_key(entry_to_insert).ok
    /\ decoded_key(entry_to_insert).bytes # <<>>
    /\ decoded_data(entry_to_insert).ok

\* C12: when "insert" or "delete" under Rw meets text that does not decode,
\* the program goes on: the state is still Rw and the entry still holds the
\* text.
C12_DecodeErrorKeepsEdit ==
    fault = "decode"
        => (pc # "panicked" /\ txn = "Rw" /\ entry_to_insert # ClearedEntry)

----------------------------------------------------------------------------
\* The path of one entry through the codec: the cursor yields its bytes,
\* the row shows them pretty-encoded (lines 266-276), "edit" copies the two
\* texts into the entry (279-282), "insert" decodes them and puts the bytes
\* (212-214).

\* Longest key and value of the entries that take this path in the model.
MaxLen == 2

\* Their bytes: NUL, newline, backslash, 'a', and 0xFF, which no UTF-8
\* sequence holds.
CodecBytes == {0, 10, 92, 97, 255}

ByteStrings == UNION {[1..n -> CodecBytes] : n \in 0..MaxLen}

\* pane_ui has opened its cursor under a write transaction, on a main table
\* that holds one entry.
CodecInit ==
    \E k \in ByteStrings \ {<<>>}, d \in ByteStrings :
        LET st == [x \in {k} |-> d]
        IN  /\ txn = "Rw"
            /\ pc = "rows"
            /\ op = "none"
            /\ fault = "none"
            /\ committed = st
            /\ liveRo = 0
            /\ liveRw = 1
            /\ rsnap = EmptyStore
            /\ wbase = st
            /\ wputs = EmptyStore
            /\ wdels = {}
            /\ entry_to_insert = ClearedEntry
            /\ shown = <<>>
            /\ wrote = [clean |-> TRUE, changed |-> FALSE, view |-> st]
            /\ ignored = FALSE
            /\ iter = [NoCursor EXCEPT !.open = TRUE, !.view = st]
            /\ tables = {}
            /\ open_pane = NewOpenPane

CodecNext ==
    \/ PaneIdle
    \/ PaneInsert
    \/ ShowRows
    \/ PaneEdit

CodecSpec == CodecInit /\ [][CodecNext]_vars

----------------------------------------------------------------------------
\* The body of the table row by row (main.rs 259-282): the table widget calls
\* the closure of body.rows once per visible row, with the row's index.

\* The keys of the tables whose rows are read one by one: one key more than
\* the stores above range over.
PageKeys == {<<KeyBytes[i]>> : i \in 1..(NumKeys + 1)}

PageStores == UNION {[D -> DataSpace] : D \in SUBSET PageKeys}

\* The row indexes the closure is called with: up to one beyond the largest
\* table.
PageRows == 0..(NumKeys + 1)

\* The state LmdbEditor::new leaves: Txn::Ro on the main table as it is.
PageInit ==
    \E st \in PageStores :
        /\ txn = "Ro"
        /\ pc = "update"
        /\ op = "none"
        /\ fault = "none"
        /\ committed = st
        /\ liveRo = 1
        /\ liveRw = 0
        /\ rsnap = st
        /\ wbase = EmptyStore
        /\ wputs = EmptyStore
        /\ wdels = {}
        /\ entry_to_insert = ClearedEntry
        /\ shown = <<>>
        /\ wrote = [clean |-> TRUE, changed |-> FALSE, view |-> st]
        /\ ignored = FALSE
        /\ iter = NoCursor
        /\ tables = {}
        /\ open_pane = NewOpenPane

\* Mutant of PageSeek: the first row of a cursor skips nothing.
PageSeek_NoSkip(row_index) ==
    /\ pc = "rows"
    /\ iter.open
    /\ iter.prev = -1 \/ iter.prev + 1 = row_index
    /\ iter' = [iter EXCEPT !.prev = row_index,
                            !.first = IF iter.first = -1 THEN row_index ELSE @]
    /\ pc' = "row"
    /\ UNCHANGED <<txn, op, fault, engine, entry_to_insert, shown, ignored,
                   tables, open_pane>>

\* Lines 260-264: assert that row_index follows prev_row_index; on the first
\* row of this cursor skip row_index entries (iter.by_ref().take(row_index),
\* which stops early at the end of the table); remember row_index.
PageSeek(row_index) ==
    /\ pc = "rows"
    /\ iter.open
    /\ IF iter.prev = -1 \/ iter.prev + 1 = row_index
       THEN LET n == Cardinality(DOMAIN iter.view)
                skipped == IF iter.prev # -1 THEN iter.pos
                           ELSE IF iter.pos + row_index <= n
                                THEN iter.pos + row_index ELSE n
            IN  /\ iter' = [iter EXCEPT !.pos = skipped,
                                        !.prev = row_index,
                                        !.first = IF iter.first = -1
                                                  THEN row_index ELSE @]
                /\ pc' = "row"
                /\ UNCHANGED <<txn, op, fault, engine, entry_to_insert, shown,
                               ignored, tables, open_pane>>
       ELSE Panic("assert")

\* Mutant of PageNext: the entry is unwrapped before it is looked at.
PageNext_Unwrap ==
    /\ pc = "row"
    /\ IF iter.pos < Cardinality(DOMAIN iter.view)
       THEN LET e == Iter(iter.view)[iter.pos + 1]
            IN  /\ iter' = [iter EXCEPT !.pos = @ + 1]
                /\ shown' = Append(shown, [key |-> EncodePretty(e.key),
                                           data |-> EncodePretty(e.data)])
                /\ pc' = "rows"
                /\ UNCHANGED <<txn, op, fault, engine, entry_to_insert, ignored,
                               tables, open_pane>>
       ELSE Panic("cursor")

\* Lines 266-276: if the cursor yields an entry, unwrap it and show its key
\* and data pretty-encoded; at the end of the table show nothing.
PageNext ==
    /\ pc = "row"
    /\ IF iter.pos < Cardinality(DOMAIN iter.view)
       THEN \E ok \in BOOLEAN :
               IF ok
               THEN LET e == Iter(iter.view)[iter.pos + 1]
                    IN  /\ iter' = [iter EXCEPT !.pos = @ + 1]
                        /\ shown' = Append(shown,
                                           [key |-> EncodePretty(e.key),
                                            data |-> EncodePretty(e.data)])
                        /\ pc' = "rows"
                        /\ UNCHANGED <<txn, op, fault, engine, entry_to_insert,
                                       ignored, tables, open_pane>>
               ELSE Panic("cursor")
       ELSE /\ pc' = "rows"
            /\ UNCHANGED <<txn, op, fault, engine, entry_to_insert, shown,
                           ignored, aside>>

\* The last visible row is done and pane_ui returns: the cursor is dropped
\* and the frame ends.
PageReturn ==
    /\ pc = "rows"
    /\ iter.open
    /\ iter' = [NoCursor EXCEPT !.resume = IF iter.first = -1 THEN iter.resume
                                           ELSE iter.prev + 1]
    /\ pc' = "update"
    /\ op' = "none"
    /\ ignored' = FALSE
    /\ UNCHANGED <<txn, fault, engine, entry_to_insert, shown, tables,
                   open_pane>>

PageStep ==
    \/ PaneIdle
    \/ \E row_index \in PageRows : PageSeek(row_index)
    \/ PageNext
    \/ PageReturn

PageSpec == PageInit /\ [][PageStep]_vars

\* C14: the rows a cursor has rendered for the row indexes first .. prev are
\* the entries at the ordinal positions first .. prev of the view's ascending
\* key order, as far as the view has them, for any first, 0 included.
C14_WindowIsOrdinalRange ==
    (pc = "rows" /\ iter.open /\ iter.first >= 0) =>
        LET all == Iter(iter.view)
            len == iter.prev - iter.first + 1
            have == IF Len(all) - iter.first < 0 THEN 0
                    ELSE IF Len(all) - iter.first < len
                         THEN Len(all) - iter.first ELSE len
        IN  /\ Len(shown) = have
            /\ \A j \in 1..have :
                  shown[j] = [key |-> EncodePretty(all[iter.first + j].key),
                              data |-> EncodePretty(all[iter.first + j].data)]
            /\ shown = Window(iter.view, iter.first, len)

\* C14 witness: a cursor whose first row was row 1 has rendered rows 1 and 2
\* of a table of three entries.
C14_ColdWindow ==
    /\ pc = "rows"
    /\ iter.open
    /\ Cardinality(DOMAIN iter.view) = 3
    /\ iter.first = 1
    /\ iter.prev = 2
    /\ Len(shown) = 2

\* C15: a row index that does not follow the previous one is served: the
\* program goes on.
C15_NonSequentialServed == fault = "assert" => pc # "panicked"

\* C19: a cursor whose first row is the one after the last row of the cursor
\* before it, on the same snapshot, has advanced once per row it rendered.
C19_SequentialWindowsReuseCursor ==
    (pc = "rows" /\ iter.open /\ iter.first >= 0 /\ iter.first = iter.resume)
        => iter.pos = Len(shown)

\* C20: the first row asked of a cursor raises no error whatever its index;
\* and when that index is at or beyond the number of entries of the view, no
\* row asked of the cursor renders anything or raises an error.
C20_BeyondEndIsEmpty ==
    [][ /\ (pc = "rows" /\ iter.open /\ iter.prev = -1) => pc' # "panicked"
        /\ (pc = "row" /\ iter.first >= Cardinality(DOMAIN iter.view))
              => (pc' \in {"row", "rows"} /\ shown' = <<>> /\ fault' = "none")
      ]_vars

\* C20 witness: row 3 was the first row asked of a cursor on a table of two
\* entries, and nothing was rendered.
C20_AskedBeyondEnd ==
    /\ pc = "rows"
    /\ iter.open
    /\ Cardinality(DOMAIN iter.view) = 2
    /\ iter.first = 3
    /\ iter.prev = 3
    /\ iter.pos = 2
    /\ shown = <<>>

\* C18: a cursor is open only while the rows of one frame are rendered, on
\* the view of the handle that is current; while it is open no step changes
\* the state, the handles, the snapshot or the pending writes (a panic ends
\* the process, cursor included); and every rendering of rows reads an open
\* cursor and shows the view of the current handle.
C18_CursorWithinOneHandle ==
    [][ /\ iter.open => /\ pc = "rows"
                        /\ txn \in {"Ro", "Rw"}
                        /\ iter.view = CurrentView
        /\ (iter.open /\ pc' # "panicked")
              => UNCHANGED <<txn, liveRo, liveRw, rsnap, wstate>>
        /\ (pc = "rows" /\ pc' = "update")
              => (iter.open /\ ~iter'.open /\ shown' = RowsOf(CurrentView))
      ]_vars

\* C18 witness: the first frame after a commit that changed the store has
\* opened its cursor under the new read handle, on the committed view.
C18_ReopenedAfterCommit ==
    /\ pc = "rows"
    /\ op = "commit"
    /\ txn = "Ro"
    /\ liveRo = 1
    /\ iter.open
    /\ wrote.changed
    /\ iter.view = wrote.view
    /\ iter.view = rsnap

(***************************************************************************)
(* Txn's methods called in any state.  update shows "commit changes" and   *)
(* "abort changes" only under Txn::Rw and "refresh" only otherwise         *)
(* (main.rs 93-105), so the editor never reaches the no-op arms of         *)
(* txn.rs; commit, abort and refresh are pub(crate), and this              *)
(* specification calls them as any caller in the crate may: at the top of  *)
(* a frame, whatever self holds.                                           *)
(***************************************************************************)

\* txn.commit(env)                                        (txn.rs 19-21)
commit ==
    /\ pc = "update"
    /\ op' = "commit"
    /\ NewFrame
    /\ EndRwTake

\* txn.abort(env)                                         (txn.rs 24-26)
abort ==
    /\ pc = "update"
    /\ op' = "abort"
    /\ NewFrame
    /\ EndRwTake

\* txn.refresh(env)                                       (txn.rs 29-37)
refresh ==
    /\ pc = "update"
    /\ op' = "refresh"
    /\ NewFrame
    /\ RefreshDrop

TxnNext ==
    \/ NewWriteTxn
    \/ NewCreateDatabase
    \/ NewCommit
    \/ NewReadTxn
    \/ ClickStartWriting
    \/ BeginWriteTxn
    \/ BeginAssign
    \/ commit
    \/ abort
    \/ refresh
    \/ EndRwCall
    \/ EndRwStore
    \/ RefreshReadTxn
    \/ PaneIdle
    \/ PaneType
    \/ PaneInsert
    \/ PaneDelete
    \/ ShowRows
    \/ PaneEdit
    \/ ExternalCommit

TxnSpec == Init /\ [][TxnNext]_vars

\* C17: commit and abort called while self is Txn::Ro, and refresh called
\* while self is Txn::Rw, return at once: no engine call is pending or made,
\* and the state, the handles, the snapshot, the pending writes and the store
\* are what they were.
C17_WrongStateIsNoOp ==
    [][ /\ (pc = "update" /\ op' \in {"commit", "abort"} /\ txn = "Ro")
              => (ignored' /\ pc' = "pane" /\ UNCHANGED <<txn, fault, engine>>)
        /\ (pc = "update" /\ op' = "refresh" /\ txn = "Rw")
              => (ignored' /\ pc' = "pane" /\ UNCHANGED <<txn, fault, engine>>)
      ]_vars

\* C17 witness: refresh was called under a write transaction that has a
\* pending put, and did nothing.
C17_RefreshWhileWriting ==
    /\ pc = "pane"
    /\ op = "refresh"
    /\ txn = "Rw"
    /\ ignored
    /\ liveRw = 1
    /\ liveRo = 0
    /\ DOMAIN wputs # {}

(***************************************************************************)
(* The "Open new" tab (main.rs 293-330).  It is the tab that is drawn, so  *)
(* a frame is the top bar followed by this pane; the environment holds any *)
(* subset of TableNames as named tables beside the main one.               *)
(***************************************************************************)

\* What is typed in the text field: nothing, the name of a table that may
\* exist, the name of a table that never does.
OpenTexts == TableNames \cup {<<>>, <<117>>}

\* The state LmdbEditor::new leaves (lines 55-74), for every set of named
\* tables the picked environment may hold.
OpenInit ==
    \E ts \in SUBSET TableNames :
        /\ txn = "Ro"
        /\ pc = "update"
        /\ op = "none"
        /\ fault = "none"
        /\ committed = EmptyStore
        /\ liveRo = 1
        /\ liveRw = 0
        /\ rsnap = EmptyStore
        /\ wbase = EmptyStore
        /\ wputs = EmptyStore
        /\ wdels = {}
        /\ entry_to_insert = ClearedEntry
        /\ shown = <<>>
        /\ wrote = [clean |-> TRUE, changed |-> FALSE, view |-> EmptyStore]
        /\ ignored = FALSE
        /\ iter = NoCursor
        /\ tables = ts
        /\ open_pane = NewOpenPane

\* Lines 297-304, then what the pane does with the handle.
OpenNew(body) ==
    IF txn \notin {"Ro", "Rw"}
    THEN Panic("unreachable")
    ELSE /\ body
         /\ pc' = "update"
         /\ ignored' = FALSE
         /\ UNCHANGED <<txn, fault, engine, entry_to_insert, shown, iter,
                        tables>>

\* The text field is edited (line 306) and "open" is not clicked (323).
OpenType ==
    /\ pc \in {"update", "pane"}
    /\ OpenNew(/\ op' = "none"
               /\ \E t \in OpenTexts :
                     open_pane' = [open_pane EXCEPT !.database_to_open = t,
                                                    !.replaced = FALSE])

\* env.open_database(rtxn, name) (line 315): Ok(Some(_)) for the main table
\* and for a named table of the environment, Ok(None) for any other name.
\* No table is created.
open_database(name) == name = <<>> \/ name \in tables

\* "open" is clicked (307-322, 327-329): a text that is not empty is taken
\* out of the field, the table is looked up, and the pane is replaced by
\* the entries of the table when there is one.  update then inserts a new
\* "Open new" tab whose text is empty (113-137).
OpenClick ==
    /\ pc \in {"update", "pane"}
    /\ \E ok \in BOOLEAN :
          IF ok
          THEN OpenNew(/\ op' = "open"
                       /\ open_pane' =
                            IF open_database(open_pane.database_to_open)
                            THEN [database_to_open |-> <<>>,
                                  opened |-> open_pane.database_to_open,
                                  replaced |-> TRUE]
                            ELSE [open_pane EXCEPT !.database_to_open = <<>>,
                                                   !.replaced = FALSE])
          ELSE Panic("open_database")

OpenNext ==
    \/ ClickStartWriting
    \/ BeginWriteTxn
    \/ BeginAssign
    \/ ClickCommit
    \/ ClickAbort
    \/ ClickRefresh
    \/ EndRwCall
    \/ EndRwStore
    \/ RefreshReadTxn
    \/ OpenType
    \/ OpenClick

OpenSpec == OpenInit /\ [][OpenNext]_vars

\* C16: "open" clicked under Txn::Ro on a name that is no table creates no
\* table, leaves the state, the handles and the store alone, replaces no
\* pane, and leaves the typed name in the text field.
C16_MissingTableRejected ==
    [][ ( /\ pc \in {"update", "pane"}
          /\ op' = "open"
          /\ pc' = "update"
          /\ txn = "Ro"
          /\ ~open_database(open_pane.database_to_open) )
        => /\ UNCHANGED <<tables, txn, engine>>
           /\ ~open_pane'.replaced
           /\ open_pane'.database_to_open = open_pane.database_to_open
      ]_vars

====
